---- MODULE Spec2Model ----
(***************************************************************************)
(* Model of the image-edit job workflow:                                   *)
(*   - GeminiClient.editImageWithRetry   (src/src/lib/inngest-client.ts)   *)
(*   - processImageAction                (src/src/actions/...-actions.ts)  *)
(*   - processImageFunction (job runner) (src/src/lib/inngest-client.ts)   *)
(*   - ImageEditor reducer + polling     (src/unnamed/part_006)            *)
(*   - validateFileAction                (src/unnamed/part_002)            *)
(* Each component has its own specification over the shared variables;     *)
(* the variables of the components a specification does not run stay at    *)
(* their idle values.                                                      *)
(***************************************************************************)
EXTENDS Integers, Sequences, FiniteSets, TLC

\* JavaScript's undefined / null, as a string so it compares with strings.
Undefined == "<undefined>"

\* A value is falsy in the code's `!x` tests when it is "", undefined or null.
Falsy(x) == x \in {"", Undefined}

RECURSIVE Pow2(_)
Pow2(n) == IF n <= 0 THEN 1 ELSE 2 * Pow2(n - 1)

RECURSIVE SumSeq(_)
SumSeq(s) == IF s = <<>> THEN 0 ELSE Head(s) + SumSeq(Tail(s))

----------------------------------------------------------------------------
(* State *)

VARIABLES
    rMax,        \* the maxRetries argument
    rAttempt,    \* the loop variable `attempt`
    rPc,         \* "loop" | "sleeping" | "returned" | "thrown" | "off"
    rLog,        \* one entry per editImage invocation: its outcome
    rDelays,     \* the setTimeout delays injected so far, in ms
    rLastError,  \* the variable `lastError`
    rResult      \* the value returned or the error thrown

retryVars == <<rMax, rAttempt, rPc, rLog, rDelays, rLastError, rResult>>

VARIABLES
    dReq,      \* the request argument
    dPc,       \* "start" | "sending" | "done" | "off"
    dSent,     \* the events handed to inngest.send, in order
    dSend,     \* how inngest.send ended: [kind, ids]
    dResult    \* the ActionState returned

dispatchVars == <<dReq, dPc, dSent, dSend, dResult>>

VARIABLES
    jEvent,        \* the 'image.process' event the job was created for
    jStatus,       \* the platform's status of the job
    jPc,           \* position of the executing handler, "idle" when none runs
    jMemo,         \* step id -> recorded output (the step checkpoints)
    jResult,       \* the handler's local `result`
    jInvocations,  \* handler invocations so far
    jFailures,     \* failed attempts so far
    jEditCalls,    \* calls of the edit backend so far
    jSleeps,       \* settle delays actually slept so far
    jOutput,       \* the value the handler returned
    jError         \* the error recorded when the job failed

runnerVars == <<jEvent, jStatus, jPc, jMemo, jResult, jInvocations, jFailures,
                jEditCalls, jSleeps, jOutput, jError>>

VARIABLES
    cState,        \* the reducer's state (ImageEditorState)
    cMounted,      \* is the ImageEditor component mounted
    cPollingRef,   \* pollingRef.current: the last interval created, by its job id
    cTimers,       \* the intervals that are live, each by the job id it polls
    cQueries,      \* job id -> status queries in flight for it
    cLastPoll,     \* the interval callback's `statusResult` of the last resolved query
    cDispatching,  \* the handleProcessImage calls awaiting their result
    cValidating,   \* the handleFileSelect calls awaiting validateFileAction
    cStarts,       \* process starts so far
    cUploads,      \* file selections so far
    cCreated,      \* preview object URLs created so far (their ids are 1..cCreated)
    cRevokes,      \* preview id -> times URL.revokeObjectURL was called on it
    pJobs,         \* the platform's record of each job
    pNextJob       \* jobs created so far

clientVars == <<cState, cMounted, cPollingRef, cTimers, cQueries, cLastPoll, cDispatching,
                cValidating, cStarts, cUploads, cCreated, cRevokes, pJobs, pNextJob>>

VARIABLES
    sJob,      \* what inngest.jobs.get(jobId) resolved with in the last status query
    sLookup,   \* how the last status query went: "none" | "job" | "null" | "throws"
    sResp      \* the ActionState the last status query returned

statusVars == <<sJob, sLookup, sResp>>

VARIABLES
    uPrev,     \* the reducer state the last dispatched action was applied to
    uAction    \* the last action dispatched to the reducer

reducerVars == <<uPrev, uAction>>

VARIABLES
    vInput,    \* what formData.get("file") finds for the call of validateFileAction
    vPc,       \* "start" | "done" | "off"
    vResult    \* the ActionState validateFileAction returned

validateVars == <<vInput, vPc, vResult>>

vars == <<retryVars, dispatchVars, runnerVars, clientVars, statusVars, reducerVars,
          validateVars>>

----------------------------------------------------------------------------
(* Bounds *)

\* largest maxRetries argument tried (0 is tried too)
MaxRetriesBound == 4

\* handler invocations the platform makes for one job (retries, redeliveries)
MaxInvocations == 4

\* process starts (Process / Retry clicks that reach the dispatch) per behaviour
MaxStarts == 2

\* file selections per behaviour
MaxUploads == 2

\* status queries in flight at once
MaxInFlight == 2

----------------------------------------------------------------------------
(* Retrying executor: GeminiClient.editImageWithRetry *)

\* default value of the maxRetries parameter
DefaultMaxRetries == 3

\* milliseconds per second, the factor of the backoff delay
BackoffBaseMs == 1000

\* What the code can see of an error: does error.message include "429",
\* does error.toString() include "rate limit".
Errors == [msg429 : BOOLEAN, strRateLimit : BOOLEAN]

EditedImages == { [imageData |-> "BBB", mimeType |-> "image/png"],
                  [imageData |-> "CCC", mimeType |-> "image/webp"] }

\* Outcomes of one editImage call: an edited image or a thrown error.
EditOutcomes == [kind : {"ok"}, image : EditedImages]
                    \cup [kind : {"err"}, err : Errors]

IsRateLimitError(e) == e.msg429 \/ e.strRateLimit

\* mutant: the exponent counts the attempt about to be made
BackoffDelayOffByOne(attempt) == Pow2(attempt + 1) * BackoffBaseMs

BackoffDelay(attempt) == Pow2(attempt) * BackoffBaseMs

\* mutant: retries (and sleeps) even when no attempt is left
ShouldRetryNoLastCheck(e, attempt, max) == IsRateLimitError(e)

\* mutant: retries whatever the error is
ShouldRetryAnyError(e, attempt, max) == attempt < max - 1

ShouldRetry(e, attempt, max) == IsRateLimitError(e) /\ attempt < max - 1

LoopContinues(attempt, max) == attempt < max

RetryIdle ==
    /\ rMax = 0
    /\ rAttempt = 0
    /\ rPc = "off"
    /\ rLog = <<>>
    /\ rDelays = <<>>
    /\ rLastError = Undefined
    /\ rResult = Undefined

RetryInit ==
    /\ rMax \in 0..MaxRetriesBound
    /\ rAttempt = 0
    /\ rPc = "loop"
    /\ rLog = <<>>
    /\ rDelays = <<>>
    /\ rLastError = Undefined
    /\ rResult = Undefined

\* try { return await this.editImage(...) }: the call succeeds
EditImageReturns(img) ==
    /\ rPc = "loop"
    /\ LoopContinues(rAttempt, rMax)
    /\ rLog' = Append(rLog, [kind |-> "ok", image |-> img])
    /\ rResult' = img
    /\ rPc' = "returned"
    /\ UNCHANGED <<rMax, rAttempt, rDelays, rLastError>>
    /\ UNCHANGED <<dispatchVars, runnerVars, clientVars, statusVars, reducerVars, validateVars>>

\* catch (error): classify, then either schedule the backoff or rethrow
EditImageThrows(e) ==
    /\ rPc = "loop"
    /\ LoopContinues(rAttempt, rMax)
    /\ rLog' = Append(rLog, [kind |-> "err", err |-> e])
    /\ rLastError' = e
    /\ IF ShouldRetry(e, rAttempt, rMax)
         THEN /\ rDelays' = Append(rDelays, BackoffDelay(rAttempt))
              /\ rPc' = "sleeping"
              /\ UNCHANGED rResult
         ELSE /\ rResult' = e
              /\ rPc' = "thrown"
              /\ UNCHANGED rDelays
    /\ UNCHANGED <<rMax, rAttempt>>
    /\ UNCHANGED <<dispatchVars, runnerVars, clientVars, statusVars, reducerVars, validateVars>>

\* the setTimeout promise resolves; `continue` runs attempt++
BackoffElapsed ==
    /\ rPc = "sleeping"
    /\ rAttempt' = rAttempt + 1
    /\ rPc' = "loop"
    /\ UNCHANGED <<rMax, rLog, rDelays, rLastError, rResult>>
    /\ UNCHANGED <<dispatchVars, runnerVars, clientVars, statusVars, reducerVars, validateVars>>

\* the loop condition is false: throw lastError
LoopExhausted ==
    /\ rPc = "loop"
    /\ ~LoopContinues(rAttempt, rMax)
    /\ rResult' = rLastError
    /\ rPc' = "thrown"
    /\ UNCHANGED <<rMax, rAttempt, rLog, rDelays, rLastError>>
    /\ UNCHANGED <<dispatchVars, runnerVars, clientVars, statusVars, reducerVars, validateVars>>

RetryNext ==
    \/ \E img \in EditedImages : EditImageReturns(img)
    \/ \E e \in Errors : EditImageThrows(e)
    \/ BackoffElapsed
    \/ LoopExhausted

----------------------------------------------------------------------------
(* Dispatch: processImageAction *)

\* estimatedTime of a successful dispatch, in seconds
EstimatedTime == 60

MsgIncomplete == "request data incomplete"
MsgDispatchStarted == "image processing started"
MsgDispatchFailed == "failed to start image processing"

ImageDatas == {Undefined, "", "AAA", "DDD"}
MimeTypes == {Undefined, "", "image/png", "image/jpeg"}
Prompts == {Undefined, "", "make it blue", "add a hat"}

Requests == [imageData : ImageDatas, mimeType : MimeTypes, prompt : Prompts]

\* The `ids` inngest.send can resolve with.
SendIds == { <<>>, <<"">>, <<"job-1">>, <<"job-2">>, <<"job-1", "job-2">> }

\* ActionState, flattened: a failure carries no data (jobId undefined).
Failure(msg) ==
    [isSuccess |-> FALSE, message |-> msg, jobId |-> Undefined, estimatedTime |-> 0]

Success(msg, jobId) ==
    [isSuccess |-> TRUE, message |-> msg, jobId |-> jobId,
     estimatedTime |-> EstimatedTime]

NoSend == [kind |-> "none", ids |-> <<>>]

\* mutant: the mimeType test is forgotten
RequestIncompleteNoMime(req) == Falsy(req.imageData) \/ Falsy(req.prompt)

RequestIncomplete(req) ==
    Falsy(req.imageData) \/ Falsy(req.prompt) \/ Falsy(req.mimeType)

ImageProcessEvent(req) ==
    [name |-> "image.process",
     data |-> [imageData |-> req.imageData, prompt |-> req.prompt,
               mimeType |-> req.mimeType]]

\* mutant: takes the last identifier of the batch
JobIdOfLast(ids) == IF Len(ids) = 0 THEN Undefined ELSE ids[Len(ids)]

\* const jobId = ids[0]
JobIdOf(ids) == IF Len(ids) = 0 THEN Undefined ELSE ids[1]

\* mutant: no test of the identifier (the earlier version of the action)
DispatchResultUnchecked(jobId) == Success(MsgDispatchStarted, jobId)

\* if (!jobId) throw ..., caught by the action's own catch block
DispatchResult(jobId) ==
    IF Falsy(jobId) THEN Failure(MsgDispatchFailed)
    ELSE Success(MsgDispatchStarted, jobId)

DispatchIdle ==
    /\ dReq = [imageData |-> Undefined, mimeType |-> Undefined, prompt |-> Undefined]
    /\ dPc = "off"
    /\ dSent = <<>>
    /\ dSend = NoSend
    /\ dResult = Failure(Undefined)

DispatchInit ==
    /\ dReq \in Requests
    /\ dPc = "start"
    /\ dSent = <<>>
    /\ dSend = NoSend
    /\ dResult = Failure(Undefined)

\* the validation test fails: return the incomplete-request failure
DispatchRejectsRequest ==
    /\ dPc = "start"
    /\ RequestIncomplete(dReq)
    /\ dResult' = Failure(MsgIncomplete)
    /\ dPc' = "done"
    /\ UNCHANGED <<dReq, dSent, dSend>>
    /\ UNCHANGED <<retryVars, runnerVars, clientVars, statusVars, reducerVars, validateVars>>

\* the validation test passes: inngest.send is called with the event
DispatchSends ==
    /\ dPc = "start"
    /\ ~RequestIncomplete(dReq)
    /\ dSent' = Append(dSent, ImageProcessEvent(dReq))
    /\ dPc' = "sending"
    /\ UNCHANGED <<dReq, dSend, dResult>>
    /\ UNCHANGED <<retryVars, runnerVars, clientVars, statusVars, reducerVars, validateVars>>

\* inngest.send resolves with { ids }
SendResolves(ids) ==
    /\ dPc = "sending"
    /\ dSend' = [kind |-> "resolved", ids |-> ids]
    /\ dResult' = DispatchResult(JobIdOf(ids))
    /\ dPc' = "done"
    /\ UNCHANGED <<dReq, dSent>>
    /\ UNCHANGED <<retryVars, runnerVars, clientVars, statusVars, reducerVars, validateVars>>

\* mutant: no catch block, the rejection of inngest.send leaves the action
SendRejectsUncaught ==
    /\ dPc = "sending"
    /\ dSend' = [kind |-> "rejected", ids |-> <<>>]
    /\ dPc' = "threw"
    /\ UNCHANGED <<dReq, dSent, dResult>>
    /\ UNCHANGED <<retryVars, runnerVars, clientVars, statusVars, reducerVars, validateVars>>

\* inngest.send rejects: the catch block returns the dispatch failure
SendRejects ==
    /\ dPc = "sending"
    /\ dSend' = [kind |-> "rejected", ids |-> <<>>]
    /\ dResult' = Failure(MsgDispatchFailed)
    /\ dPc' = "done"
    /\ UNCHANGED <<dReq, dSent>>
    /\ UNCHANGED <<retryVars, runnerVars, clientVars, statusVars, reducerVars, validateVars>>

\* inngest.send resolves with an object that has no ids: `ids[0]` throws a
\* TypeError inside the try block
SendResolvesWithoutIds ==
    /\ dPc = "sending"
    /\ dSend' = [kind |-> "resolved-no-ids", ids |-> <<>>]
    /\ dResult' = Failure(MsgDispatchFailed)
    /\ dPc' = "done"
    /\ UNCHANGED <<dReq, dSent>>
    /\ UNCHANGED <<retryVars, runnerVars, clientVars, statusVars, reducerVars, validateVars>>

DispatchNext ==
    \/ DispatchRejectsRequest
    \/ DispatchSends
    \/ \E ids \in SendIds : SendResolves(ids)
    \/ SendResolvesWithoutIds
    \/ SendRejects

----------------------------------------------------------------------------
(* Background job runner: processImageFunction, and the edit call it wraps *)

\* retries configured for the function (1 initial attempt + 2 retries)
Retries == 2

MsgRateLimited == "rate limit exceeded, retry in a minute"
MsgGeminiFailed == "image processing through the API failed"

StepIds == {"call-gemini-api", "wait-a-moment"}

NoImage == [imageData |-> Undefined, mimeType |-> Undefined]

NotRecorded == [done |-> FALSE, output |-> NoImage]

Recorded(out) == [done |-> TRUE, output |-> out]

\* The events a dispatch can have emitted.
JobEvents == { ImageProcessEvent(r) : r \in {q \in Requests : ~RequestIncomplete(q)} }

\* What model.generateContent can do: answer with a valid inline image, answer
\* without one, fail with an error whose text holds "429", fail otherwise.
BackendOutcomes == [kind : {"image"}, image : EditedImages]
                       \cup [kind : {"noimage", "err429", "errOther"}, image : {NoImage}]

\* processImageWithGemini: the image, or one of its two fixed errors.
ProcessImageWithGemini(o) ==
    CASE o.kind = "image"  -> [ok |-> TRUE, image |-> o.image, message |-> ""]
      [] o.kind = "err429" -> [ok |-> FALSE, image |-> NoImage, message |-> MsgRateLimited]
      [] OTHER             -> [ok |-> FALSE, image |-> NoImage, message |-> MsgGeminiFailed]

\* mutant: the body is built from the event's data instead of the step's result
RunnerBodyFromEvent(result, event) ==
    [imageData |-> event.data.imageData, mimeType |-> event.data.mimeType]

\* mutant: the body always claims the PNG type
RunnerBodyFixedMime(result, event) ==
    [imageData |-> result.imageData, mimeType |-> "image/png"]

\* body: { ...result }
RunnerBody(result, event) ==
    [imageData |-> result.imageData, mimeType |-> result.mimeType]

\* step.run / step.sleep replay a step whose checkpoint is recorded
StepReplays(memo, id) == memo[id].done

RunnerIdle ==
    /\ jEvent = ImageProcessEvent([imageData |-> "AAA", mimeType |-> "image/png",
                                   prompt |-> "make it blue"])
    /\ jStatus = "off"
    /\ jPc = "idle"
    /\ jMemo = [s \in StepIds |-> NotRecorded]
    /\ jResult = NoImage
    /\ jInvocations = 0
    /\ jFailures = 0
    /\ jEditCalls = 0
    /\ jSleeps = 0
    /\ jOutput = [event |-> jEvent, body |-> NoImage]
    /\ jError = Undefined

RunnerInit ==
    /\ jEvent \in JobEvents
    /\ jStatus = "queued"
    /\ jPc = "idle"
    /\ jMemo = [s \in StepIds |-> NotRecorded]
    /\ jResult = NoImage
    /\ jInvocations = 0
    /\ jFailures = 0
    /\ jEditCalls = 0
    /\ jSleeps = 0
    /\ jOutput = [event |-> jEvent, body |-> NoImage]
    /\ jError = Undefined

\* the platform invokes the handler: first run, retry, or a repeated delivery
RunnerInvoke ==
    /\ jPc = "idle"
    /\ jStatus \in {"queued", "running", "completed"}
    /\ jInvocations < MaxInvocations
    /\ jInvocations' = jInvocations + 1
    /\ jStatus' = IF jStatus = "completed" THEN "completed" ELSE "running"
    /\ jResult' = NoImage
    /\ jPc' = "step"
    /\ UNCHANGED <<jEvent, jMemo, jFailures, jEditCalls, jSleeps, jOutput, jError>>
    /\ UNCHANGED <<retryVars, dispatchVars, clientVars, statusVars, reducerVars, validateVars>>

\* step.run("call-gemini-api") with a recorded checkpoint: the output is reused
StepRunReplays ==
    /\ jPc = "step"
    /\ StepReplays(jMemo, "call-gemini-api")
    /\ jResult' = jMemo["call-gemini-api"].output
    /\ jPc' = "sleep"
    /\ UNCHANGED <<jEvent, jStatus, jMemo, jInvocations, jFailures, jEditCalls,
                   jSleeps, jOutput, jError>>
    /\ UNCHANGED <<retryVars, dispatchVars, clientVars, statusVars, reducerVars, validateVars>>

\* mutant: the handler catches the step's error and goes on without an image
StepRunExecutesCatches(o) ==
    /\ jPc = "step"
    /\ ~StepReplays(jMemo, "call-gemini-api")
    /\ jEditCalls' = jEditCalls + 1
    /\ LET r == ProcessImageWithGemini(o) IN
         /\ jMemo' = [jMemo EXCEPT !["call-gemini-api"] = Recorded(r.image)]
         /\ jResult' = r.image
         /\ jPc' = "sleep"
    /\ UNCHANGED <<jEvent, jStatus, jFailures, jError, jInvocations, jSleeps, jOutput>>
    /\ UNCHANGED <<retryVars, dispatchVars, clientVars, statusVars, reducerVars, validateVars>>

\* step.run executes the callback: processImageWithGemini calls the backend
StepRunExecutes(o) ==
    /\ jPc = "step"
    /\ ~StepReplays(jMemo, "call-gemini-api")
    /\ jEditCalls' = jEditCalls + 1
    /\ LET r == ProcessImageWithGemini(o) IN
         IF r.ok
           THEN /\ jMemo' = [jMemo EXCEPT !["call-gemini-api"] = Recorded(r.image)]
                /\ jResult' = r.image
                /\ jPc' = "sleep"
                /\ UNCHANGED <<jStatus, jFailures, jError>>
           ELSE \* the handler does not catch: the attempt fails
                /\ jFailures' = jFailures + 1
                /\ jPc' = "idle"
                /\ IF jFailures + 1 > Retries
                     THEN jStatus' = "failed" /\ jError' = r.message
                     ELSE UNCHANGED <<jStatus, jError>>
                /\ UNCHANGED <<jMemo, jResult>>
    /\ UNCHANGED <<jEvent, jInvocations, jSleeps, jOutput>>
    /\ UNCHANGED <<retryVars, dispatchVars, clientVars, statusVars, reducerVars, validateVars>>

\* mutant: the handler goes on to its return without the delay
StepSleepSkipped ==
    /\ jPc = "sleep"
    /\ jPc' = "return"
    /\ UNCHANGED <<jEvent, jStatus, jMemo, jResult, jInvocations, jFailures,
                   jEditCalls, jSleeps, jOutput, jError>>
    /\ UNCHANGED <<retryVars, dispatchVars, clientVars, statusVars, reducerVars, validateVars>>

\* step.sleep("wait-a-moment", "1s")
StepSleep ==
    /\ jPc = "sleep"
    /\ IF StepReplays(jMemo, "wait-a-moment")
         THEN UNCHANGED <<jMemo, jSleeps>>
         ELSE /\ jMemo' = [jMemo EXCEPT !["wait-a-moment"] = Recorded(NoImage)]
              /\ jSleeps' = jSleeps + 1
    /\ jPc' = "return"
    /\ UNCHANGED <<jEvent, jStatus, jResult, jInvocations, jFailures, jEditCalls,
                   jOutput, jError>>
    /\ UNCHANGED <<retryVars, dispatchVars, clientVars, statusVars, reducerVars, validateVars>>

\* return { event, body: { ...result } }
RunnerReturns ==
    /\ jPc = "return"
    /\ jOutput' = [event |-> jEvent, body |-> RunnerBody(jResult, jEvent)]
    /\ jStatus' = "completed"
    /\ jPc' = "idle"
    /\ UNCHANGED <<jEvent, jMemo, jResult, jInvocations, jFailures, jEditCalls,
                   jSleeps, jError>>
    /\ UNCHANGED <<retryVars, dispatchVars, clientVars, statusVars, reducerVars, validateVars>>

\* the process running the handler dies; the platform will invoke it again
RunnerCrashes ==
    /\ jPc \in {"step", "sleep", "return"}
    /\ jPc' = "idle"
    /\ UNCHANGED <<jEvent, jStatus, jMemo, jResult, jInvocations, jFailures,
                   jEditCalls, jSleeps, jOutput, jError>>
    /\ UNCHANGED <<retryVars, dispatchVars, clientVars, statusVars, reducerVars, validateVars>>

RunnerNext ==
    \/ RunnerInvoke
    \/ StepRunReplays
    \/ \E o \in BackendOutcomes : StepRunExecutes(o)
    \/ StepSleep
    \/ RunnerReturns
    \/ RunnerCrashes

----------------------------------------------------------------------------
(* Status query: getProcessingStatusAction *)

MsgNotFound == "job not found"
MsgStatusRetrieved == "job status retrieved"
MsgStatusFailed == "failed to get the processing status"
MsgUnknownJobFailure == "unknown failure in the job"

JobIdSeq == <<"job-1", "job-2", "job-3", "job-4", "job-5", "job-6">>

JobIds == { JobIdSeq[i] : i \in 1..Len(JobIdSeq) }

\* A job as the platform reports it. body is job.output?.body as an optional:
\* <<>> when the output or its body is absent, <<b>> otherwise. failure is
\* job.data.event.data?.error?.message, Undefined when absent.
NoJob == [status |-> "none", body |-> <<>>, failure |-> Undefined]

QueuedJob == [status |-> "queued", body |-> <<>>, failure |-> Undefined]

\* What a job can turn into next on the platform.
JobSuccessors(job) ==
    CASE job.status = "queued"  -> { [job EXCEPT !.status = "running"] }
      [] job.status = "running" ->
            { [job EXCEPT !.status = "completed", !.body = <<img>>] :
                  img \in {[imageData |-> "BBB", mimeType |-> "image/png"]} }
            \cup { [job EXCEPT !.status = "completed"] }
            \cup { [job EXCEPT !.status = "failed", !.failure = m] :
                       m \in {Undefined, "API error"} }
      [] OTHER -> {}

\* How inngest.jobs.get ends: with the job, with null, or by throwing.
Lookups == {"job", "null", "throws"}

\* mutant: an unrecognised raw status is reported as PROCESSING
StatusOfDefaultProcessing(raw) ==
    CASE raw = "completed" -> "COMPLETED"
      [] raw = "failed"    -> "FAILED"
      [] OTHER             -> "PROCESSING"

\* mutant: a running job is reported as COMPLETED
StatusOfRunningCompleted(raw) ==
    CASE raw \in {"completed", "running"} -> "COMPLETED"
      [] raw = "failed"                   -> "FAILED"
      [] OTHER                            -> "PENDING"

\* the mapping of the platform's status to the application's
StatusOf(raw) ==
    CASE raw = "completed" -> "COMPLETED"
      [] raw = "failed"    -> "FAILED"
      [] raw = "running"   -> "PROCESSING"
      [] OTHER             -> "PENDING"

\* mutant: a failure of the query is answered like a job that failed
StatusFailureAsFailedJob(msg) ==
    [isSuccess |-> TRUE, message |-> msg, status |-> "FAILED",
     result |-> <<>>, error |-> msg]

\* ActionState<ProcessingStatusResponse>, flattened
StatusFailure(msg) ==
    [isSuccess |-> FALSE, message |-> msg, status |-> Undefined,
     result |-> <<>>, error |-> Undefined]

\* mutant: no fallback message (the Platform API variant of the action)
JobErrorNoFallback(job) ==
    IF job.status = "failed" THEN job.failure ELSE Undefined

\* const jobError = job.status === "failed" ? (...)?.error?.message || "..." : undefined
JobError(job) ==
    IF job.status = "failed"
      THEN (IF Falsy(job.failure) THEN MsgUnknownJobFailure ELSE job.failure)
      ELSE Undefined

\* mutant: an unknown job is answered like a job that failed
NotFoundAsFailedJob ==
    [isSuccess |-> TRUE, message |-> MsgStatusRetrieved, status |-> "FAILED",
     result |-> <<>>, error |-> MsgNotFound]

\* if (!job) return { isSuccess: false, message: ... }
NotFoundResponse == StatusFailure(MsgNotFound)

GetProcessingStatus(lookup, job) ==
    CASE lookup = "throws" -> StatusFailure(MsgStatusFailed)
      [] lookup = "null"   -> NotFoundResponse
      [] OTHER ->
            [isSuccess |-> TRUE,
             message |-> MsgStatusRetrieved,
             status |-> StatusOf(job.status),
             result |-> job.body,
             error |-> JobError(job)]

\* The raw status values a job can be reported with: the three the action
\* tests for, and others (absent, queued, not started, unrecognised).
RawStatuses == {Undefined, "", "queued", "scheduled", "cancelled",
                "running", "completed", "failed"}

\* The value processImageFunction returns: { event, body }.
RunnerOutputs ==
    { [event |-> ImageProcessEvent([imageData |-> "AAA", mimeType |-> "image/png",
                                    prompt |-> "make it blue"]),
       body |-> img] : img \in EditedImages }

\* The object inngest.jobs.get resolves with. output is job.output as an
\* optional (<<>> when absent); hasEvent says whether job.data.event exists;
\* failure is job.data.event.data?.error?.message.
RawJobs == [status : RawStatuses,
            output : {<<>>} \cup { <<o>> : o \in RunnerOutputs },
            hasEvent : BOOLEAN,
            failure : {Undefined, "", "API error"}]

NoRawJob == [status |-> Undefined, output |-> <<>>, hasEvent |-> FALSE,
             failure |-> Undefined]

\* mutant: the whole output is handed on (the Platform API variant of the
\* action: result: jobRun.output)
JobOutputWhole(output) == output

\* job.output?.body
JobOutputBody(output) == IF output = <<>> THEN <<>> ELSE << output[1].body >>

\* what the action reads of the raw job
JobRecord(raw) ==
    [status |-> raw.status, body |-> JobOutputBody(raw.output),
     failure |-> raw.failure]

\* reading job.data.event.data of a failed job throws when job.data or
\* job.data.event is missing; the catch block answers
ReadThrows(raw) == raw.status = "failed" /\ ~raw.hasEvent

StatusIdle ==
    /\ sJob = NoRawJob
    /\ sLookup = "none"
    /\ sResp = StatusFailure(Undefined)

\* inngest.jobs.get resolves with a job
JobsGetResolves(raw) ==
    /\ sJob' = raw
    /\ sLookup' = IF ReadThrows(raw) THEN "throws" ELSE "job"
    /\ sResp' = GetProcessingStatus(sLookup', JobRecord(raw))
    /\ UNCHANGED <<retryVars, dispatchVars, runnerVars, clientVars, reducerVars, validateVars>>

\* inngest.jobs.get resolves with null: the id names no job
JobsGetResolvesNull ==
    /\ sJob' = NoRawJob
    /\ sLookup' = "null"
    /\ sResp' = GetProcessingStatus("null", JobRecord(NoRawJob))
    /\ UNCHANGED <<retryVars, dispatchVars, runnerVars, clientVars, reducerVars, validateVars>>

\* inngest.jobs.get rejects
JobsGetRejects ==
    /\ sJob' = NoRawJob
    /\ sLookup' = "throws"
    /\ sResp' = GetProcessingStatus("throws", JobRecord(NoRawJob))
    /\ UNCHANGED <<retryVars, dispatchVars, runnerVars, clientVars, reducerVars, validateVars>>

StatusNext ==
    \/ \E raw \in RawJobs : JobsGetResolves(raw)
    \/ JobsGetResolvesNull
    \/ JobsGetRejects

\* The job as the platform holds it while processImageFunction runs for it:
\* its output is the value the handler returned. failure is what the platform
\* put at job.data.event.data.error.message.
PlatformJob(failure) ==
    [status |-> jStatus,
     output |-> IF jStatus = "completed" THEN << jOutput >> ELSE <<>>,
     hasEvent |-> TRUE,
     failure |-> IF jStatus = "failed" THEN failure ELSE Undefined]

\* a status query for the job the runner works on
PlatformJobQueried(withMessage) ==
    JobsGetResolves(PlatformJob(IF withMessage THEN jError ELSE Undefined))

JobStatusNext ==
    \/ RunnerNext
    \/ \E withMessage \in BOOLEAN : PlatformJobQueried(withMessage)
    \/ JobsGetResolvesNull
    \/ JobsGetRejects

----------------------------------------------------------------------------
(* Client: imageEditorReducer *)

MsgEncodeFailed == "fatal error while preparing the image"
MsgFileTooLarge == "file size exceeds the 7 MB allowed"
MsgValidationUnexpected == "file validation failed unexpectedly"

\* A File: its name, its MIME type, and the base64 part of its data URL
\* (empty for an empty file).
Files == { [name |-> "photo.png", type |-> "image/png", base64 |-> "AAA"],
           [name |-> "empty.png", type |-> "image/png", base64 |-> ""] }

NoFileObject == [name |-> Undefined, type |-> Undefined, base64 |-> Undefined]

\* uploadedFile: null
NoFile == [file |-> NoFileObject, preview |-> 0]

\* processedImageUrl: null
NoUrl == <<>>

\* `data:${mimeType};base64,${imageData}`
DataUrl(result) == <<"data:", result.mimeType, ";base64,", result.imageData>>

PromptInputs == {"", " ", "make it blue"}

\* prompt.trim()
Trim(p) == IF p = " " THEN "" ELSE p

InitialState ==
    [status |-> "IDLE", uploadedFile |-> NoFile, prompt |-> "",
     jobId |-> Undefined, processedImageUrl |-> NoUrl, error |-> Undefined]

\* mutant: the case starts from initialState, as VALIDATION_STARTED does
ValidationSuccessFromInitial(state, a) ==
    [InitialState EXCEPT !.status = "READY",
                         !.uploadedFile = [file |-> a.file, preview |-> a.preview]]

\* case "VALIDATION_SUCCESS"; a.preview is what URL.createObjectURL returned
ValidationSuccess(state, a) ==
    [state EXCEPT !.status = "READY", !.error = Undefined,
                  !.uploadedFile = [file |-> a.file, preview |-> a.preview]]

\* mutant: the failure keeps the job id
ProcessImageFailureKeepsJob(state, a) ==
    [state EXCEPT !.status = "ERROR", !.error = a.error]

\* mutant: the failure stores the error but leaves the status
ProcessImageFailureStaysProcessing(state, a) ==
    [state EXCEPT !.error = a.error, !.jobId = Undefined]

\* case "PROCESS_IMAGE_FAILURE"
ProcessImageFailure(state, a) ==
    [state EXCEPT !.status = "ERROR", !.error = a.error, !.jobId = Undefined]

\* mutant: the case spreads the old state instead of initialState
ValidationStartedKeepsState(state, a) == [state EXCEPT !.status = "VALIDATING"]

\* case "VALIDATION_STARTED"
ValidationStarted(state, a) == [InitialState EXCEPT !.status = "VALIDATING"]

\* case "VALIDATION_FAILURE"
ValidationFailure(state, a) == [state EXCEPT !.status = "IDLE", !.error = a.error]

\* mutant: the start keeps the error of the failed attempt
ProcessImageStartedKeepsError(state, a) ==
    [state EXCEPT !.status = "PROCESSING", !.jobId = Undefined]

\* case "PROCESS_IMAGE_STARTED"
ProcessImageStarted(state, a) ==
    [state EXCEPT !.status = "PROCESSING", !.error = Undefined, !.jobId = Undefined]

\* imageEditorReducer
Reducer(state, a) ==
    CASE a.type = "VALIDATION_STARTED" -> ValidationStarted(state, a)
      [] a.type = "VALIDATION_SUCCESS" -> ValidationSuccess(state, a)
      [] a.type = "VALIDATION_FAILURE" -> ValidationFailure(state, a)
      [] a.type = "SET_PROMPT" ->
            [state EXCEPT !.prompt = a.prompt]
      [] a.type = "PROCESS_IMAGE_STARTED" -> ProcessImageStarted(state, a)
      [] a.type = "PROCESS_IMAGE_DISPATCH_SUCCESS" ->
            [state EXCEPT !.jobId = a.jobId]
      [] a.type = "PROCESS_IMAGE_POLLING_SUCCESS" ->
            [state EXCEPT !.status = "SUCCESS", !.processedImageUrl = a.imageUrl,
                          !.jobId = Undefined]
      [] a.type = "PROCESS_IMAGE_FAILURE" -> ProcessImageFailure(state, a)
      [] a.type = "RESET" -> InitialState
      [] OTHER -> state

\* mutant: RESET forgets the held file's preview without revoking it
RevokedByNone(state, a) == {}

\* the previews the reducer revokes while handling a: RESET revokes the
\* held file's preview
RevokedBy(state, a) ==
    IF a.type = "RESET" /\ state.uploadedFile.preview # 0
      THEN {state.uploadedFile.preview}
      ELSE {}

----------------------------------------------------------------------------
(* Client: what the rendered view lets the user do *)

IsLoading(state) == state.status \in {"VALIDATING", "PROCESSING"}

HasFile(state) == state.uploadedFile # NoFile

\* the before/after view with its "start over" and download buttons
SuccessView(state) ==
    state.status = "SUCCESS" /\ HasFile(state) /\ state.processedImageUrl # NoUrl

\* the drag-and-drop zone
UploadView(state) ==
    ~SuccessView(state) /\ state.status \in {"IDLE", "VALIDATING"}

\* the preview with its remove button, and the prompt form or the progress
GridView(state) == ~SuccessView(state) /\ ~UploadView(state)

FormVisible(state) ==
    GridView(state) /\ state.status # "PROCESSING" /\ HasFile(state)

CanSelectFile(state) == UploadView(state) /\ ~IsLoading(state)

CanSetPrompt(state) == FormVisible(state) /\ ~IsLoading(state)

CanClickProcess(state) ==
    FormVisible(state) /\ ~IsLoading(state) /\ Trim(state.prompt) # ""

CanClickRetry(state) ==
    GridView(state) /\ HasFile(state) /\ state.status = "ERROR"

CanClickReset(state) ==
    \/ SuccessView(state)
    \/ GridView(state) /\ HasFile(state) /\ ~IsLoading(state)

----------------------------------------------------------------------------
(* Client: the ImageEditor component *)

InFlight == cQueries["job-1"] + cQueries["job-2"] + cQueries["job-3"]
              + cQueries["job-4"] + cQueries["job-5"] + cQueries["job-6"]

\* mutant: clearInterval has no effect
ClearIntervalNoop(ref, timers) == timers

\* clearInterval(pollingRef.current), when pollingRef.current is set
ClearInterval(ref, timers) == IF ref = Undefined THEN timers ELSE timers \ {ref}

\* mutant: the effect returns no cleanup
PollingEffectNoCleanup(old, new, ref, timers) ==
    IF old.jobId = new.jobId /\ old.status = new.status
      THEN [ref |-> ref, timers |-> timers]
      ELSE IF ~Falsy(new.jobId) /\ new.status = "PROCESSING"
             THEN [ref |-> new.jobId, timers |-> timers \cup {new.jobId}]
             ELSE [ref |-> ref, timers |-> timers]

\* mutant: the effect arms the timer for any PROCESSING state, job id or not
PollingEffectNoJobGuard(old, new, ref, timers) ==
    IF old.jobId = new.jobId /\ old.status = new.status
      THEN [ref |-> ref, timers |-> timers]
      ELSE LET cleaned == ClearInterval(ref, timers) IN
           IF new.status = "PROCESSING"
             THEN [ref |-> new.jobId, timers |-> cleaned \cup {new.jobId}]
             ELSE [ref |-> ref, timers |-> cleaned]

\* The polling effect, run when a render changes state.jobId or state.status:
\* the previous effect's cleanup, then the new effect's body.
PollingEffect(old, new, ref, timers) ==
    IF old.jobId = new.jobId /\ old.status = new.status
      THEN [ref |-> ref, timers |-> timers]
      ELSE LET cleaned == ClearInterval(ref, timers) IN
           IF ~Falsy(new.jobId) /\ new.status = "PROCESSING"
             THEN [ref |-> new.jobId, timers |-> cleaned \cup {new.jobId}]
             ELSE [ref |-> ref, timers |-> cleaned]

\* dispatch(a) followed by the render and effects it causes, with the
\* timer handles as the caller left them. A dispatch to an unmounted
\* component changes nothing.
Apply(a, ref, timers) ==
    IF ~cMounted
      THEN /\ cState' = cState
           /\ cPollingRef' = ref
           /\ cTimers' = timers
           /\ UNCHANGED <<cCreated, cRevokes>>
      ELSE LET new == Reducer(cState, a)
               eff == PollingEffect(cState, new, ref, timers)
           IN /\ cState' = new
              /\ cPollingRef' = eff.ref
              /\ cTimers' = eff.timers
              /\ cCreated' = IF a.type = "VALIDATION_SUCCESS" THEN cCreated + 1
                             ELSE cCreated
              /\ cRevokes' = [p \in DOMAIN cRevokes |->
                                 IF p \in RevokedBy(cState, a) THEN cRevokes[p] + 1
                                 ELSE cRevokes[p]]

NoPoll == [jobId |-> Undefined, resp |-> StatusFailure(Undefined)]

ClientIdle ==
    /\ cState = InitialState
    /\ cMounted = FALSE
    /\ cPollingRef = Undefined
    /\ cTimers = {}
    /\ cQueries = [j \in JobIds |-> 0]
    /\ cLastPoll = NoPoll
    /\ cDispatching = <<>>
    /\ cValidating = <<>>
    /\ cStarts = 0
    /\ cUploads = 0
    /\ cCreated = 0
    /\ cRevokes = [p \in 1..MaxUploads |-> 0]
    /\ pJobs = [j \in JobIds |-> NoJob]
    /\ pNextJob = 0

ClientInit ==
    /\ cState = InitialState
    /\ cMounted = TRUE
    /\ cPollingRef = Undefined
    /\ cTimers = {}
    /\ cQueries = [j \in JobIds |-> 0]
    /\ cLastPoll = NoPoll
    /\ cDispatching = <<>>
    /\ cValidating = <<>>
    /\ cStarts = 0
    /\ cUploads = 0
    /\ cCreated = 0
    /\ cRevokes = [p \in 1..MaxUploads |-> 0]
    /\ pJobs = [j \in JobIds |-> NoJob]
    /\ pNextJob = 0

RemoveAt(q, i) == [k \in 1..(Len(q) - 1) |-> IF k < i THEN q[k] ELSE q[k + 1]]

\* handleFileSelect up to its await: the dropzone hands over an accepted file
SelectFile(f) ==
    /\ cMounted
    /\ CanSelectFile(cState)
    /\ cUploads < MaxUploads
    /\ cUploads' = cUploads + 1
    /\ cValidating' = Append(cValidating, f)
    /\ Apply([type |-> "VALIDATION_STARTED"], cPollingRef, cTimers)
    /\ UNCHANGED <<cMounted, cQueries, cLastPoll, cDispatching, cStarts, pJobs, pNextJob>>
    /\ UNCHANGED <<retryVars, dispatchVars, runnerVars, statusVars, reducerVars, validateVars>>

\* handleFileSelect after its await: validateFileAction succeeded
ValidationSucceeds(i) ==
    /\ i \in 1..Len(cValidating)
    /\ cValidating' = RemoveAt(cValidating, i)
    /\ Apply([type |-> "VALIDATION_SUCCESS", file |-> cValidating[i],
              preview |-> cCreated + 1], cPollingRef, cTimers)
    /\ UNCHANGED <<cMounted, cQueries, cLastPoll, cDispatching, cStarts, cUploads, pJobs, pNextJob>>
    /\ UNCHANGED <<retryVars, dispatchVars, runnerVars, statusVars, reducerVars, validateVars>>

\* handleFileSelect after its await: validateFileAction returned a failure
ValidationFails(i, msg) ==
    /\ i \in 1..Len(cValidating)
    /\ cValidating' = RemoveAt(cValidating, i)
    /\ Apply([type |-> "VALIDATION_FAILURE", error |-> msg], cPollingRef, cTimers)
    /\ UNCHANGED <<cMounted, cQueries, cLastPoll, cDispatching, cStarts, cUploads, pJobs, pNextJob>>
    /\ UNCHANGED <<retryVars, dispatchVars, runnerVars, statusVars, reducerVars, validateVars>>

\* the textarea's onChange
SetPrompt(p) ==
    /\ cMounted
    /\ CanSetPrompt(cState)
    /\ Apply([type |-> "SET_PROMPT", prompt |-> p], cPollingRef, cTimers)
    /\ UNCHANGED <<cMounted, cQueries, cLastPoll, cDispatching, cValidating, cStarts, cUploads, pJobs,
                   pNextJob>>
    /\ UNCHANGED <<retryVars, dispatchVars, runnerVars, statusVars, reducerVars, validateVars>>

\* handleProcessImage up to its first await, from the Process or Retry button
StartProcessing ==
    /\ cMounted
    /\ CanClickProcess(cState) \/ CanClickRetry(cState)
    /\ cStarts < MaxStarts
    /\ IF ~HasFile(cState) \/ Falsy(cState.prompt)
         THEN \* toast.error(...); return
              UNCHANGED <<cState, cPollingRef, cTimers, cCreated, cRevokes,
                          cDispatching, cStarts>>
         ELSE /\ cStarts' = cStarts + 1
              /\ cDispatching' = Append(cDispatching,
                                        [file |-> cState.uploadedFile.file,
                                         prompt |-> cState.prompt])
              /\ Apply([type |-> "PROCESS_IMAGE_STARTED"], cPollingRef, cTimers)
    /\ UNCHANGED <<cMounted, cQueries, cLastPoll, cValidating, cUploads, pJobs, pNextJob>>
    /\ UNCHANGED <<retryVars, dispatchVars, runnerVars, statusVars, reducerVars, validateVars>>

\* the request handleProcessImage builds from the file and prompt it captured
RequestOf(d) ==
    [imageData |-> d.file.base64, mimeType |-> d.file.type, prompt |-> d.prompt]

\* handleProcessImage: toBase64 rejects, the catch block reports it
EncodingFails(i) ==
    /\ i \in 1..Len(cDispatching)
    /\ cDispatching' = RemoveAt(cDispatching, i)
    /\ Apply([type |-> "PROCESS_IMAGE_FAILURE", error |-> MsgEncodeFailed],
             cPollingRef, cTimers)
    /\ UNCHANGED <<cMounted, cQueries, cLastPoll, cValidating, cStarts, cUploads, pJobs, pNextJob>>
    /\ UNCHANGED <<retryVars, dispatchVars, runnerVars, statusVars, reducerVars, validateVars>>

\* handleProcessImage: processImageAction returns a failure, for an incomplete
\* request or (fails = TRUE) a send that failed or produced no identifier
DispatchFails(i, fails) ==
    /\ i \in 1..Len(cDispatching)
    /\ RequestIncomplete(RequestOf(cDispatching[i])) \/ fails
    /\ cDispatching' = RemoveAt(cDispatching, i)
    /\ LET result == IF RequestIncomplete(RequestOf(cDispatching[i]))
                       THEN Failure(MsgIncomplete)
                       ELSE DispatchResult(JobIdOf(<<>>))
       IN Apply([type |-> "PROCESS_IMAGE_FAILURE", error |-> result.message],
                cPollingRef, cTimers)
    /\ UNCHANGED <<cMounted, cQueries, cLastPoll, cValidating, cStarts, cUploads, pJobs, pNextJob>>
    /\ UNCHANGED <<retryVars, dispatchVars, runnerVars, statusVars, reducerVars, validateVars>>

\* handleProcessImage: processImageAction returns the id of the job that the
\* platform created for the event
DispatchSucceeds(i) ==
    /\ i \in 1..Len(cDispatching)
    /\ ~RequestIncomplete(RequestOf(cDispatching[i]))
    /\ LET result == DispatchResult(JobIdOf(<<JobIdSeq[pNextJob + 1]>>)) IN
         /\ result.isSuccess
         /\ pNextJob' = pNextJob + 1
         /\ pJobs' = [pJobs EXCEPT ![result.jobId] = QueuedJob]
         /\ Apply([type |-> "PROCESS_IMAGE_DISPATCH_SUCCESS",
                   jobId |-> result.jobId], cPollingRef, cTimers)
    /\ cDispatching' = RemoveAt(cDispatching, i)
    /\ UNCHANGED <<cMounted, cQueries, cLastPoll, cValidating, cStarts, cUploads>>
    /\ UNCHANGED <<retryVars, dispatchVars, runnerVars, statusVars, reducerVars, validateVars>>

\* the platform moves a job on
JobAdvances(j, next) ==
    /\ next \in JobSuccessors(pJobs[j])
    /\ pJobs' = [pJobs EXCEPT ![j] = next]
    /\ UNCHANGED <<cState, cMounted, cPollingRef, cTimers, cQueries, cLastPoll,
                   cDispatching, cValidating, cStarts, cUploads, cCreated,
                   cRevokes, pNextJob>>
    /\ UNCHANGED <<retryVars, dispatchVars, runnerVars, statusVars, reducerVars, validateVars>>

\* a live interval fires: its callback calls getProcessingStatusAction with
\* the job id of the render that created it
PollTick(j) ==
    /\ j \in cTimers
    /\ InFlight < MaxInFlight
    /\ cQueries' = [cQueries EXCEPT ![j] = @ + 1]
    /\ UNCHANGED <<cState, cMounted, cPollingRef, cTimers, cLastPoll, cDispatching,
                   cValidating, cStarts, cUploads, cCreated, cRevokes, pJobs,
                   pNextJob>>
    /\ UNCHANGED <<retryVars, dispatchVars, runnerVars, statusVars, reducerVars, validateVars>>

\* mutant: the callback stops the interval on a PENDING or PROCESSING answer
OtherStatusBranchClears(ref, timers) == ClearInterval(ref, timers)

\* the timers after an answer that is neither COMPLETED nor FAILED: no branch
\* of the callback runs, the interval is left alone
OtherStatusBranch(ref, timers) == timers

\* the interval callback after its await
PollResolves(j, lookup) ==
    /\ cQueries[j] > 0
    /\ cQueries' = [cQueries EXCEPT ![j] = @ - 1]
    /\ cLastPoll' = [jobId |-> j, resp |-> GetProcessingStatus(lookup, pJobs[j])]
    /\ LET resp == GetProcessingStatus(lookup, pJobs[j])
           cleared == ClearInterval(cPollingRef, cTimers)
       IN
         IF resp.isSuccess
           THEN CASE resp.status = "COMPLETED" ->
                       IF resp.result = <<>>
                         THEN \* const { imageData, mimeType } = result throws
                              /\ cTimers' = cleared
                              /\ UNCHANGED <<cState, cPollingRef, cCreated, cRevokes>>
                         ELSE Apply([type |-> "PROCESS_IMAGE_POLLING_SUCCESS",
                                     imageUrl |-> DataUrl(resp.result[1])],
                                    cPollingRef, cleared)
                  [] resp.status = "FAILED" ->
                       Apply([type |-> "PROCESS_IMAGE_FAILURE",
                              error |-> IF Falsy(resp.error)
                                          THEN MsgUnknownJobFailure
                                          ELSE resp.error],
                             cPollingRef, cleared)
                  [] OTHER ->
                       /\ cTimers' = OtherStatusBranch(cPollingRef, cTimers)
                       /\ UNCHANGED <<cState, cPollingRef, cCreated, cRevokes>>
           ELSE Apply([type |-> "PROCESS_IMAGE_FAILURE", error |-> resp.message],
                      cPollingRef, cleared)
    /\ UNCHANGED <<cMounted, cDispatching, cValidating, cStarts, cUploads, pJobs,
                   pNextJob>>
    /\ UNCHANGED <<retryVars, dispatchVars, runnerVars, statusVars, reducerVars, validateVars>>

\* the "start over" button or the preview's remove button
ClickReset ==
    /\ cMounted
    /\ CanClickReset(cState)
    /\ Apply([type |-> "RESET"], cPollingRef, cTimers)
    /\ UNCHANGED <<cMounted, cQueries, cLastPoll, cDispatching, cValidating, cStarts, cUploads, pJobs,
                   pNextJob>>
    /\ UNCHANGED <<retryVars, dispatchVars, runnerVars, statusVars, reducerVars, validateVars>>

\* mutant: the polling effect returns no cleanup, the interval outlives the
\* component
UnmountNoCleanup ==
    /\ cMounted
    /\ cMounted' = FALSE
    /\ UNCHANGED <<cState, cPollingRef, cTimers, cQueries, cLastPoll, cDispatching,
                   cValidating, cStarts, cUploads, cCreated, cRevokes, pJobs,
                   pNextJob>>
    /\ UNCHANGED <<retryVars, dispatchVars, runnerVars, statusVars, reducerVars, validateVars>>

\* the component unmounts: the polling effect's cleanup runs
Unmount ==
    /\ cMounted
    /\ cMounted' = FALSE
    /\ cTimers' = ClearInterval(cPollingRef, cTimers)
    /\ UNCHANGED <<cState, cPollingRef, cQueries, cLastPoll, cDispatching,
                   cValidating, cStarts, cUploads, cCreated, cRevokes, pJobs,
                   pNextJob>>
    /\ UNCHANGED <<retryVars, dispatchVars, runnerVars, statusVars, reducerVars, validateVars>>

ClientNext ==
    \/ \E f \in Files : SelectFile(f)
    \/ \E i \in 1..MaxUploads : ValidationSucceeds(i)
    \/ \E i \in 1..MaxUploads, m \in {MsgFileTooLarge, MsgValidationUnexpected} :
          ValidationFails(i, m)
    \/ \E p \in PromptInputs : SetPrompt(p)
    \/ StartProcessing
    \/ \E i \in 1..MaxStarts : EncodingFails(i)
    \/ \E i \in 1..MaxStarts, fails \in BOOLEAN : DispatchFails(i, fails)
    \/ \E i \in 1..MaxStarts : DispatchSucceeds(i)
    \/ \E j \in JobIds : \E next \in JobSuccessors(pJobs[j]) : JobAdvances(j, next)
    \/ \E j \in JobIds : PollTick(j)
    \/ \E j \in JobIds, l \in Lookups : PollResolves(j, l)
    \/ ClickReset
    \/ Unmount

----------------------------------------------------------------------------
(* Client: the reducer and the polling effect as a state machine of their   *)
(* own, driven by any sequence of actions                                   *)

\* The ImageEditorAction values.
ImageEditorActions ==
    { [type |-> t] : t \in {"VALIDATION_STARTED", "PROCESS_IMAGE_STARTED", "RESET"} }
      \cup { [type |-> "VALIDATION_SUCCESS", file |-> f] : f \in Files }
      \cup { [type |-> "VALIDATION_FAILURE", error |-> MsgFileTooLarge] }
      \cup { [type |-> "SET_PROMPT", prompt |-> p] : p \in {"", "make it blue"} }
      \cup { [type |-> "PROCESS_IMAGE_DISPATCH_SUCCESS", jobId |-> j] :
                 j \in {"job-1", "job-2"} }
      \cup { [type |-> "PROCESS_IMAGE_POLLING_SUCCESS",
              imageUrl |-> DataUrl([imageData |-> "BBB", mimeType |-> "image/png"])] }
      \cup { [type |-> "PROCESS_IMAGE_FAILURE", error |-> MsgStatusFailed] }

NoAction == [type |-> "none"]

ReducerIdle ==
    /\ uPrev = InitialState
    /\ uAction = NoAction

ReducerInit ==
    /\ ClientInit
    /\ uPrev = InitialState
    /\ uAction = NoAction

\* the action with the preview URL.createObjectURL returns while the reducer
\* handles it
WithPreview(a) ==
    IF a.type = "VALIDATION_SUCCESS"
      THEN [type |-> a.type, file |-> a.file, preview |-> cCreated + 1]
      ELSE a

\* dispatch(a), the render and the effects that follow
Dispatch(a) ==
    /\ cMounted
    /\ a.type = "VALIDATION_SUCCESS" => cCreated < MaxUploads
    /\ uPrev' = cState
    /\ uAction' = a
    /\ Apply(WithPreview(a), cPollingRef, cTimers)
    /\ UNCHANGED <<cMounted, cQueries, cLastPoll, cDispatching, cValidating,
                   cStarts, cUploads, pJobs, pNextJob>>
    /\ UNCHANGED <<retryVars, dispatchVars, runnerVars, statusVars, validateVars>>

ReducerNext == \E a \in ImageEditorActions : Dispatch(a)

----------------------------------------------------------------------------
(* File validation: validateFileAction *)

\* MAX_FILE_SIZE_MB
MaxFileSizeMb == 7

MaxFileSizeBytes == MaxFileSizeMb * 1024 * 1024

AllowedMimeTypes == {"image/png", "image/jpeg", "image/webp"}

MsgNoFile == "no file was found"
MsgUnsupportedType == "unsupported file type, use PNG, JPEG or WebP"
MsgFileValidated == "file validated"

FileSizes == {0, 1, MaxFileSizeBytes - 1, MaxFileSizeBytes, MaxFileSizeBytes + 1,
              8 * 1024 * 1024}

FileTypes == {"image/png", "image/jpeg", "image/webp", "image/gif", "IMAGE/PNG", ""}

FileNames == {"test.png", "large.jpg"}

\* What the action can be called with: a FormData whose "file" entry is a
\* File, a FormData without that entry (get returns null), or no FormData at
\* all (formData.get throws).
ValidateInputs ==
    [kind : {"file"}, name : FileNames, size : FileSizes, type : FileTypes]
      \cup [kind : {"none", "noform"}, name : {Undefined}, size : {0},
            type : {Undefined}]

\* ActionState<FileValidationResult>, flattened
FileRejected(msg) ==
    [isSuccess |-> FALSE, message |-> msg, isValid |-> FALSE,
     fileSize |-> 0, fileType |-> Undefined, fileName |-> Undefined]

FileAccepted(file) ==
    [isSuccess |-> TRUE, message |-> MsgFileValidated, isValid |-> TRUE,
     fileSize |-> file.size, fileType |-> file.type, fileName |-> file.name]

\* mutant: a file of exactly the maximum size is rejected
TooLargeInclusive(size) == size >= MaxFileSizeBytes

\* file.size > MAX_FILE_SIZE_BYTES
TooLarge(size) == size > MaxFileSizeBytes

\* !ALLOWED_MIME_TYPES.includes(file.type)
TypeNotAllowed(type) == type \notin AllowedMimeTypes

ValidateIdle ==
    /\ vInput = [kind |-> "none", name |-> Undefined, size |-> 0, type |-> Undefined]
    /\ vPc = "off"
    /\ vResult = FileRejected(Undefined)

ValidateInit ==
    /\ vInput \in ValidateInputs
    /\ vPc = "start"
    /\ vResult = FileRejected(Undefined)

\* if (!file) return the no-file failure
ValidateRejectsMissing ==
    /\ vPc = "start"
    /\ vInput.kind = "none"
    /\ vResult' = FileRejected(MsgNoFile)
    /\ vPc' = "done"
    /\ UNCHANGED vInput
    /\ UNCHANGED <<retryVars, dispatchVars, runnerVars, clientVars, statusVars,
                   reducerVars>>

\* Rule 1: the size test
ValidateRejectsSize ==
    /\ vPc = "start"
    /\ vInput.kind = "file"
    /\ TooLarge(vInput.size)
    /\ vResult' = FileRejected(MsgFileTooLarge)
    /\ vPc' = "done"
    /\ UNCHANGED vInput
    /\ UNCHANGED <<retryVars, dispatchVars, runnerVars, clientVars, statusVars,
                   reducerVars>>

\* Rule 2: the type test
ValidateRejectsType ==
    /\ vPc = "start"
    /\ vInput.kind = "file"
    /\ ~TooLarge(vInput.size)
    /\ TypeNotAllowed(vInput.type)
    /\ vResult' = FileRejected(MsgUnsupportedType)
    /\ vPc' = "done"
    /\ UNCHANGED vInput
    /\ UNCHANGED <<retryVars, dispatchVars, runnerVars, clientVars, statusVars,
                   reducerVars>>

\* all tests pass: success with the file's metadata
ValidateAccepts ==
    /\ vPc = "start"
    /\ vInput.kind = "file"
    /\ ~TooLarge(vInput.size)
    /\ ~TypeNotAllowed(vInput.type)
    /\ vResult' = FileAccepted(vInput)
    /\ vPc' = "done"
    /\ UNCHANGED vInput
    /\ UNCHANGED <<retryVars, dispatchVars, runnerVars, clientVars, statusVars,
                   reducerVars>>

\* formData.get throws: the catch block answers
ValidateThrows ==
    /\ vPc = "start"
    /\ vInput.kind = "noform"
    /\ vResult' = FileRejected(MsgValidationUnexpected)
    /\ vPc' = "done"
    /\ UNCHANGED vInput
    /\ UNCHANGED <<retryVars, dispatchVars, runnerVars, clientVars, statusVars,
                   reducerVars>>

ValidateNext ==
    \/ ValidateRejectsMissing
    \/ ValidateRejectsSize
    \/ ValidateRejectsType
    \/ ValidateAccepts
    \/ ValidateThrows

----------------------------------------------------------------------------
(* Specifications *)

InitRetry ==
    RetryInit /\ DispatchIdle /\ RunnerIdle /\ ClientIdle /\ StatusIdle /\ ReducerIdle /\ ValidateIdle

SpecRetry == InitRetry /\ [][RetryNext]_vars

InitDispatch ==
    DispatchInit /\ RetryIdle /\ RunnerIdle /\ ClientIdle /\ StatusIdle /\ ReducerIdle /\ ValidateIdle

InitRunner ==
    RunnerInit /\ RetryIdle /\ DispatchIdle /\ ClientIdle /\ StatusIdle /\ ReducerIdle /\ ValidateIdle

SpecRunner == InitRunner /\ [][RunnerNext]_vars

Init ==
    ClientInit /\ RetryIdle /\ DispatchIdle /\ RunnerIdle /\ StatusIdle /\ ReducerIdle /\ ValidateIdle

Next == ClientNext

Spec == Init /\ [][Next]_vars

\* The platform moves every job on, a live interval keeps firing, and every
\* status query that was issued gets its answer.
ClientFairness ==
    /\ WF_vars(\E j \in JobIds : \E next \in JobSuccessors(pJobs[j]) :
                   JobAdvances(j, next))
    /\ WF_vars(\E j \in JobIds : PollTick(j))
    /\ WF_vars(\E j \in JobIds, l \in Lookups : PollResolves(j, l))

SpecLive == Init /\ [][Next]_vars /\ ClientFairness

SpecDispatch == InitDispatch /\ [][DispatchNext]_vars

InitStatus ==
    StatusIdle /\ RetryIdle /\ DispatchIdle /\ RunnerIdle /\ ClientIdle /\ ReducerIdle /\ ValidateIdle

SpecStatus == InitStatus /\ [][StatusNext]_vars

InitJobStatus ==
    RunnerInit /\ StatusIdle /\ RetryIdle /\ DispatchIdle /\ ClientIdle /\ ReducerIdle /\ ValidateIdle

SpecJobStatus == InitJobStatus /\ [][JobStatusNext]_vars

InitReducer ==
    ReducerInit /\ RetryIdle /\ DispatchIdle /\ RunnerIdle /\ StatusIdle /\ ValidateIdle

SpecReducer == InitReducer /\ [][ReducerNext]_vars

InitValidate ==
    /\ ValidateInit /\ RetryIdle /\ DispatchIdle /\ RunnerIdle /\ StatusIdle
    /\ ClientIdle /\ ReducerIdle

SpecValidate == InitValidate /\ [][ValidateNext]_vars

\* The two server actions of the job workflow side by side: one call of
\* processImageAction and any number of calls of getProcessingStatusAction.
InitActions ==
    /\ DispatchInit /\ StatusIdle /\ RetryIdle /\ RunnerIdle /\ ClientIdle
    /\ ReducerIdle /\ ValidateIdle

ActionsNext == DispatchNext \/ StatusNext

SpecActions == InitActions /\ [][ActionsNext]_vars

----------------------------------------------------------------------------
(* Claims about dispatch (SpecDispatch) *)

AnyFieldMissing ==
    \E f \in {"imageData", "prompt", "mimeType"} : dReq[f] \in {"", Undefined}

\* C1: a dispatch request with an empty or missing imageData, prompt or
\* mimeType never reaches inngest.send, and the action returns the
\* incomplete-request failure.
C1_IncompleteRequestRejected ==
    AnyFieldMissing =>
        /\ dSent = <<>>
        /\ dSend.kind = "none"
        /\ dPc # "sending"
        /\ dPc = "done" => dResult = Failure(MsgIncomplete)

C1_Witness ==
    /\ dPc = "done"
    /\ ~Falsy(dReq.imageData) /\ ~Falsy(dReq.prompt) /\ dReq.mimeType = ""

\* C9: a dispatch with three non-empty fields hands exactly one
\* 'image.process' event to inngest.send, whose data is exactly the request's
\* imageData, prompt and mimeType; a successful result carries ids[0].
C9_OneEventOneId ==
    ~AnyFieldMissing =>
        /\ Len(dSent) <= 1
        /\ dPc # "start" =>
              /\ Len(dSent) = 1
              /\ dSent[1].name = "image.process"
              /\ dSent[1].data = [imageData |-> dReq.imageData,
                                  prompt |-> dReq.prompt,
                                  mimeType |-> dReq.mimeType]
        /\ (dPc = "done" /\ dResult.isSuccess) =>
              /\ dSend.kind = "resolved"
              /\ Len(dSend.ids) >= 1
              /\ dResult.jobId = dSend.ids[1]

C9_Witness ==
    /\ dPc = "done"
    /\ dResult.isSuccess
    /\ Len(dSend.ids) = 2
    /\ dSend.ids[1] # dSend.ids[2]

NoIdentifierProduced ==
    \/ dSend.kind = "resolved-no-ids"
    \/ /\ dSend.kind = "resolved"
       /\ (Len(dSend.ids) = 0 \/ dSend.ids[1] = "")

\* C10: when inngest.send resolves without an identifier (no ids, or an empty
\* first id) the action returns the dispatch failure, whose message differs
\* from the validation failure's; no success carries an empty or undefined
\* jobId.
C10_NoIdentifierIsDispatchFailure ==
    /\ (dPc = "done" /\ NoIdentifierProduced) =>
          /\ dResult = Failure(MsgDispatchFailed)
          /\ dResult.message # MsgIncomplete
    /\ (dPc = "done" /\ dResult.isSuccess) => dResult.jobId \notin {"", Undefined}

C10_Witness ==
    /\ dPc = "done"
    /\ dSend.kind = "resolved"
    /\ dSend.ids = <<"">>

----------------------------------------------------------------------------
(* Claims about the status query (SpecStatus) *)

StatusValues == {"PENDING", "PROCESSING", "COMPLETED", "FAILED"}

\* C11: the reported status is a total function of the raw status: completed
\* gives COMPLETED, failed gives FAILED, running gives PROCESSING, every other
\* raw value (absent, empty, queued, scheduled, unrecognised) gives PENDING;
\* it is always one of the four values.
C11_StatusMappingTotal ==
    sLookup = "job" =>
        /\ sResp.isSuccess
        /\ sResp.status \in StatusValues
        /\ sJob.status = "completed" => sResp.status = "COMPLETED"
        /\ sJob.status = "failed" => sResp.status = "FAILED"
        /\ sJob.status = "running" => sResp.status = "PROCESSING"
        /\ sJob.status \notin {"completed", "failed", "running"} =>
              sResp.status = "PENDING"

\* a query answered for a job whose raw status the action does not know
C11_Witness ==
    /\ sLookup = "job"
    /\ sJob.status = "cancelled"
    /\ sResp.status = "PENDING"

\* C13: a response with status FAILED carries a non-empty error: the message
\* recorded for the job when there is one, the generic message otherwise; a
\* response with another status carries no error.
C13_FailedHasMessage ==
    sResp.isSuccess =>
        /\ sResp.status = "FAILED" =>
              /\ sResp.error \notin {"", Undefined}
              /\ sResp.error = IF sJob.failure \in {"", Undefined}
                                 THEN MsgUnknownJobFailure
                                 ELSE sJob.failure
        /\ sResp.status # "FAILED" => sResp.error = Undefined

\* a failed job whose recorded message is empty
C13_Witness ==
    /\ sResp.isSuccess
    /\ sResp.status = "FAILED"
    /\ sJob.failure = ""
    /\ sResp.error = MsgUnknownJobFailure

\* C14: when the identifier names no job the action fails with the not-found
\* message; a successful response with status FAILED is only given for a job
\* the platform reports as failed, and the not-found answer differs from
\* every other answer.
C14_NotFoundIsActionFailure ==
    /\ sLookup = "null" =>
          /\ ~sResp.isSuccess
          /\ sResp.message = MsgNotFound
          /\ sResp.status # "FAILED"
    /\ (sResp.isSuccess /\ sResp.status = "FAILED") =>
          (sLookup = "job" /\ sJob.status = "failed")
    /\ sResp.message = MsgNotFound => sLookup = "null"

C14_Witness ==
    /\ sLookup = "null"
    /\ sResp.message = MsgNotFound

----------------------------------------------------------------------------
(* Claims about the status of a running job (SpecJobStatus) *)

RunnerReturned == jOutput.body # NoImage

\* an execution of the handler ran to its end, by returning or by throwing
ExecutionCompleted == RunnerReturned \/ jFailures > 0

\* C12: a response with status COMPLETED carries as result exactly the body
\* the runner returned: the edited image the edit step recorded, not the
\* runner's whole return value and not the image of the request.
C12_CompletedCarriesRunnerBody ==
    (sResp.isSuccess /\ sResp.status = "COMPLETED") =>
        /\ RunnerReturned
        /\ sResp.result = << jOutput.body >>
        /\ jOutput.body = jMemo["call-gemini-api"].output
        /\ jOutput.body \in EditedImages
        /\ jOutput.body.imageData # jEvent.data.imageData

C12_Witness ==
    /\ sResp.isSuccess
    /\ sResp.status = "COMPLETED"
    /\ sResp.result # <<>>

\* C15: while no execution of the handler has run to its end, a status query
\* that is answered reports PENDING or PROCESSING; COMPLETED is reported only
\* after the handler returned.
C15_NoCompletedBeforeRunnerReturns ==
    sResp.isSuccess =>
        /\ ~ExecutionCompleted => sResp.status \in {"PENDING", "PROCESSING"}
        /\ sResp.status = "COMPLETED" => RunnerReturned

\* the job is reported as PROCESSING while the handler is about to return
C15_Witness ==
    /\ sResp.isSuccess
    /\ sResp.status = "PROCESSING"
    /\ jPc = "return"
    /\ ~ExecutionCompleted

\* the output the edit step recorded
StepOutput == jMemo["call-gemini-api"].output

\* C21: the runner records its edit step after exactly one successful backend
\* call; the job is completed only with the image E that call returned as
\* its body, and a query of the completed job answers COMPLETED with result E
\* (request AAA / image/png and backend image BBB / image/png give the result
\* BBB / image/png).
C21_EndToEndSuccess ==
    /\ jMemo["call-gemini-api"].done =>
          /\ jEditCalls = jFailures + 1
          /\ StepOutput \in EditedImages
    /\ jStatus = "completed" =>
          /\ jMemo["call-gemini-api"].done
          /\ jOutput.body = StepOutput
    /\ (sLookup = "job" /\ sJob.status = "completed") =>
          /\ sResp.isSuccess
          /\ sResp.status = "COMPLETED"
          /\ sResp.result = << StepOutput >>
    /\ (/\ sLookup = "job"
        /\ sJob.status = "completed"
        /\ jEvent.data.imageData = "AAA"
        /\ jEvent.data.mimeType = "image/png"
        /\ StepOutput.imageData = "BBB") =>
          sResp.result = << [imageData |-> "BBB", mimeType |-> "image/png"] >>

\* the example: AAA / image/png / "make it blue" in, BBB / image/png out
C21_Witness ==
    /\ jEvent.data = [imageData |-> "AAA", prompt |-> "make it blue",
                      mimeType |-> "image/png"]
    /\ jEditCalls = 1
    /\ sLookup = "job"
    /\ sResp.status = "COMPLETED"
    /\ sResp.result = << [imageData |-> "BBB", mimeType |-> "image/png"] >>

\* C22: a failed backend call always fails the execution it was made in (the
\* handler catches nothing); once more executions have failed than the
\* function has retries the job is failed with a recorded message, and a
\* query of the failed job answers FAILED with a non-empty error.
C22_EndToEndFailure ==
    /\ jEditCalls = jFailures + (IF jMemo["call-gemini-api"].done THEN 1 ELSE 0)
    /\ jStatus = "completed" => StepOutput \in EditedImages
    /\ jFailures > Retries =>
          /\ jStatus = "failed"
          /\ jError \notin {"", Undefined}
    /\ jStatus = "failed" => jFailures = Retries + 1
    /\ (sLookup = "job" /\ sJob.status = "failed") =>
          /\ sResp.isSuccess
          /\ sResp.status = "FAILED"
          /\ sResp.error \notin {"", Undefined}

\* three executions, each ended by a fatal backend error, then a query
C22_Witness ==
    /\ jEditCalls = Retries + 1
    /\ jFailures = Retries + 1
    /\ jError = MsgGeminiFailed
    /\ sLookup = "job"
    /\ sJob.status = "failed"
    /\ sResp.status = "FAILED"

----------------------------------------------------------------------------
(* Claims about file validation (SpecValidate) *)

\* C24: validateFileAction succeeds exactly for a present file of at most
\* 7 * 1024 * 1024 bytes whose type is image/png, image/jpeg or image/webp;
\* a success returns the file's own name, type and size; a missing file, a
\* file too large and a file of another type are each refused with a message
\* of their own.
C24_ValidationIffSizeAndType ==
    vPc = "done" =>
        /\ vResult.isSuccess <=>
              /\ vInput.kind = "file"
              /\ vInput.size <= 7 * 1024 * 1024
              /\ vInput.type \in {"image/png", "image/jpeg", "image/webp"}
        /\ vResult.isSuccess =>
              /\ vResult.fileName = vInput.name
              /\ vResult.fileType = vInput.type
              /\ vResult.fileSize = vInput.size
        /\ vInput.kind = "none" => vResult.message = MsgNoFile
        /\ (vInput.kind = "file" /\ vInput.size > 7 * 1024 * 1024) =>
              vResult.message = MsgFileTooLarge
        /\ (/\ vInput.kind = "file"
            /\ vInput.size <= 7 * 1024 * 1024
            /\ vInput.type \notin {"image/png", "image/jpeg", "image/webp"}) =>
              vResult.message = MsgUnsupportedType
        /\ Cardinality({MsgNoFile, MsgFileTooLarge, MsgUnsupportedType,
                        MsgFileValidated}) = 4

\* a file of exactly the maximum size is accepted
C24_Witness ==
    /\ vPc = "done"
    /\ vInput.kind = "file"
    /\ vInput.size = 7340032
    /\ vInput.type = "image/webp"
    /\ vResult.isSuccess
    /\ vResult.fileSize = 7340032

----------------------------------------------------------------------------
(* Claims about the job runner (SpecRunner) *)

EditStepRecorded == jMemo["call-gemini-api"].done

\* C5: once the edit step has recorded success, no later step of the runner,
\* in this or any further invocation, calls the edit backend again, and every
\* value the runner returns has the recorded step output as its body.
C5_StepIdempotence ==
    /\ [][EditStepRecorded => jEditCalls' = jEditCalls]_vars
    /\ [](jStatus = "completed" =>
             /\ EditStepRecorded
             /\ jOutput.body = jMemo["call-gemini-api"].output)

\* the runner returned from a third invocation, after the step was recorded
\* in an earlier one
C5_Witness ==
    /\ jStatus = "completed"
    /\ jPc = "idle"
    /\ jInvocations >= 3
    /\ jEditCalls = 1

SettleDelayRecorded == jMemo["wait-a-moment"].done

\* C34: the runner returns only after the edit step succeeded and the one
\* settle delay elapsed, in that order: the delay is never taken before the
\* step has recorded its success, it is taken once per job, and the returned
\* body is the step's output.
C34_StepThenOneDelayThenReturn ==
    /\ [][RunnerReturns =>
             /\ EditStepRecorded
             /\ SettleDelayRecorded
             /\ jSleeps = 1
             /\ jOutput'.body = jMemo["call-gemini-api"].output
             /\ jOutput'.body \in EditedImages]_vars
    /\ [][jSleeps' # jSleeps =>
             (EditStepRecorded /\ jSleeps = 0 /\ jSleeps' = 1)]_vars
    /\ [](SettleDelayRecorded => EditStepRecorded)
    /\ [](jStatus = "completed" => SettleDelayRecorded /\ jSleeps = 1)

\* a first execution that ran the step, slept once and returned
C34_Witness ==
    /\ jStatus = "completed"
    /\ jPc = "idle"
    /\ jInvocations = 1
    /\ jSleeps = 1
    /\ jOutput.body = jMemo["call-gemini-api"].output
    /\ jOutput.body \in EditedImages

\* the job becomes failed in this step, its error being the rate-limit one
FailsRateLimitedNow ==
    /\ jStatus # "failed"
    /\ jStatus' = "failed"
    /\ jError' = MsgRateLimited

\* C26: the edit step retries a rate-limited backend call itself, so an
\* execution that fails the job through rate limiting has made all of the
\* retrying executor's attempts (DefaultMaxRetries backend calls) within that
\* one step.
C26_RateLimitRetriedInsideStep ==
    [][FailsRateLimitedNow => jEditCalls' - jEditCalls >= DefaultMaxRetries]_vars

----------------------------------------------------------------------------
(* Claims about the retrying executor (SpecRetry) *)

AllRateLimited ==
    \A i \in 1..Len(rLog) :
        rLog[i].kind = "err" /\ (rLog[i].err.msg429 \/ rLog[i].err.strRateLimit)

IsPrefix(s, t) == Len(s) <= Len(t) /\ \A i \in 1..Len(s) : s[i] = t[i]

\* C6: with maxRetries = 3 and a backend that fails with a rate-limit error
\* on every call, the backend is invoked at most 3 times, the delays are 1 s
\* then 2 s, and the call ends by throwing the third rate-limit error after
\* exactly 3 invocations and no third delay.
C6_RetryBound ==
    (rMax = 3 /\ AllRateLimited) =>
        /\ Len(rLog) <= 3
        /\ IsPrefix(rDelays, <<1000, 2000>>)
        /\ rPc \notin {"returned"}
        /\ Len(rLog) = 3 =>
              /\ rPc = "thrown"
              /\ rDelays = <<1000, 2000>>
              /\ SumSeq(rDelays) = 3000
              /\ rResult = rLog[3].err
        /\ rPc = "thrown" => Len(rLog) = 3

C6_Witness ==
    /\ rMax = 3
    /\ AllRateLimited
    /\ Len(rLog) = 3
    /\ rPc = "thrown"

RECURSIVE GeometricSum(_)
GeometricSum(n) == IF n <= 0 THEN 0 ELSE Pow2(n - 1) + GeometricSum(n - 1)

\* C7: for maxRetries >= 1 the backend is invoked at most maxRetries times,
\* at least once when the call has ended, never after a success, and the
\* delays add up to at most (2^0 + ... + 2^(maxRetries-2)) seconds.
C7_AttemptsAndDelayBounded ==
    rMax >= 1 =>
        /\ Len(rLog) <= rMax
        /\ rPc \in {"returned", "thrown"} => Len(rLog) >= 1
        /\ \A i \in 1..(Len(rLog) - 1) : rLog[i].kind # "ok"
        /\ SumSeq(rDelays) <= GeometricSum(rMax - 1) * 1000

\* success on the last allowed attempt, after every backoff has been slept
C7_Witness ==
    /\ rMax >= 3
    /\ rPc = "returned"
    /\ Len(rLog) = rMax
    /\ SumSeq(rDelays) = GeometricSum(rMax - 1) * 1000

\* C8: a failure that is not a rate-limit error, or a rate-limit error of the
\* last allowed attempt, is the last invocation: it is rethrown at once, with
\* no delay injected for it.
C8_FatalErrorPropagates ==
    \A i \in 1..Len(rLog) :
        (/\ rLog[i].kind = "err"
         /\ \/ ~(rLog[i].err.msg429 \/ rLog[i].err.strRateLimit)
            \/ i = rMax)
        => /\ i = Len(rLog)
           /\ rPc = "thrown"
           /\ rResult = rLog[i].err
           /\ Len(rDelays) = i - 1

\* a fatal error on the second attempt of at least three
C8_Witness ==
    /\ rMax >= 3
    /\ Len(rLog) = 2
    /\ rLog[2].kind = "err"
    /\ ~rLog[2].err.msg429 /\ ~rLog[2].err.strRateLimit
    /\ rPc = "thrown"

----------------------------------------------------------------------------
(* Claims about the reducer and the polling effect (SpecReducer) *)

\* C16: RESET dispatched in any state (IDLE, VALIDATING, READY, PROCESSING,
\* SUCCESS, ERROR) gives status IDLE with no uploaded file, no job id, no
\* processed image, no error and an empty prompt, and leaves no poll timer
\* live.
C16_ResetYieldsIdle ==
    uAction.type = "RESET" =>
        /\ cState.status = "IDLE"
        /\ cState.uploadedFile = NoFile
        /\ cState.jobId = Undefined
        /\ cState.processedImageUrl = NoUrl
        /\ cState.error = Undefined
        /\ cState.prompt = ""
        /\ cTimers = {}

\* RESET dispatched while PROCESSING a job, when the poll timer was live
C16_Witness ==
    /\ uAction.type = "RESET"
    /\ uPrev.status = "PROCESSING"
    /\ uPrev.jobId # Undefined
    /\ uPrev.uploadedFile # NoFile
    /\ cPollingRef = uPrev.jobId

\* C17: VALIDATION_SUCCESS with a file dispatched in status IDLE gives status
\* READY with that file and a freshly created preview as the uploaded file
\* and no error, and leaves prompt, jobId and processedImageUrl as they were.
C17_ValidationSuccessFromIdle ==
    (uAction.type = "VALIDATION_SUCCESS" /\ uPrev.status = "IDLE") =>
        /\ cState.status = "READY"
        /\ cState.uploadedFile # NoFile
        /\ cState.uploadedFile.file = uAction.file
        /\ cState.uploadedFile.preview = cCreated
        /\ cState.uploadedFile.preview # uPrev.uploadedFile.preview
        /\ cRevokes[cState.uploadedFile.preview] = 0
        /\ cState.error = Undefined
        /\ cState.prompt = uPrev.prompt
        /\ cState.jobId = uPrev.jobId
        /\ cState.processedImageUrl = uPrev.processedImageUrl

\* VALIDATION_SUCCESS in an IDLE state that holds an error, a prompt and a
\* job id
C17_Witness ==
    /\ uAction.type = "VALIDATION_SUCCESS"
    /\ uPrev.status = "IDLE"
    /\ uPrev.error # Undefined
    /\ uPrev.prompt # ""
    /\ uPrev.jobId # Undefined

----------------------------------------------------------------------------
(* Claims about the client (Spec) *)

\* a status query resolves in this step
PollResolvedNow == \E j \in JobIds : cQueries'[j] < cQueries[j]

\* C2: when the client has been reset to Idle while a status query was in
\* flight, and that query resolves as COMPLETED, the client state stays the
\* Idle state (status IDLE, no file, no job id, no processed image).
C2_StalePollDiscarded ==
    [][(/\ cMounted
        /\ cState = InitialState
        /\ PollResolvedNow
        /\ cLastPoll'.resp.isSuccess
        /\ cLastPoll'.resp.status = "COMPLETED")
       => cState' = InitialState]_vars

TimerLive == cTimers # {}

\* C3: while the editor is mounted, a poll timer is live if and only if the
\* status is PROCESSING and a job id is set.
C3_TimerIffProcessingJob ==
    cMounted =>
        (TimerLive <=> (cState.status = "PROCESSING" /\ cState.jobId # Undefined))

\* C4: at no time are two status queries of the client in flight.
C4_PollingIsSerial == InFlight <= 1

\* the last status query that resolved was for job j and ended the polling:
\* COMPLETED, FAILED, or a query that failed
TerminalOutcome(j) ==
    /\ cLastPoll.jobId = j
    /\ \/ ~cLastPoll.resp.isSuccess
       \/ cLastPoll.resp.status \in {"COMPLETED", "FAILED"}

\* C18: once a status query for a job has resolved as COMPLETED, as FAILED or
\* as a failed query, the interval polling that job is cancelled in that very
\* step and is never live again, so no further status query is issued for
\* the job.
C18_TerminalOutcomeStopsPolling ==
    \A j \in JobIds : [](TerminalOutcome(j) => [](j \notin cTimers))

\* a query for job-1 resolved as FAILED while a second one is still in flight
C18_Witness ==
    /\ cMounted
    /\ TerminalOutcome("job-1")
    /\ cLastPoll.resp.isSuccess
    /\ cLastPoll.resp.status = "FAILED"
    /\ cState.status = "ERROR"
    /\ cQueries["job-1"] > 0

\* a status query is issued for job j in this step
QueryIssued(j) == cQueries'[j] > cQueries[j]

\* C19: a reset and an unmount leave no poll timer live; no timer is live
\* while the editor is unmounted; and a status query is only ever issued for
\* the job id the mounted editor holds in status PROCESSING, so none is issued
\* for a job whose polling was cancelled, whether or not a query of it is
\* still in flight.
C19_CancelStopsPolling ==
    /\ [][(ClickReset \/ Unmount) => cTimers' = {}]_vars
    /\ [](~cMounted => cTimers = {})
    /\ [][\A j \in JobIds :
             QueryIssued(j) => /\ cMounted
                               /\ cState.status = "PROCESSING"
                               /\ cState.jobId = j]_vars

\* the editor was unmounted while polling job-1, with a query in flight that
\* has not resolved
C19_Witness ==
    /\ ~cMounted
    /\ cState.status = "PROCESSING"
    /\ cState.jobId = "job-1"
    /\ cPollingRef = "job-1"
    /\ cLastPoll = NoPoll
    /\ cQueries["job-1"] > 0
    /\ cTimers = {}

\* the mounted editor's state holds preview p for rendering
PreviewHeld(p) == cMounted /\ cState.uploadedFile.preview = p

\* C20: every preview created is either still held by the editor's state and
\* not released, or no longer held and released exactly once.
C20_PreviewReleasedExactlyOnce ==
    \A p \in 1..cCreated :
        IF PreviewHeld(p) THEN cRevokes[p] = 0 ELSE cRevokes[p] = 1

\* a status query resolves in this step and the query itself had failed
QueryFailedNow == PollResolvedNow /\ cLastPoll'.resp.message = MsgStatusFailed

\* C23: a status query that itself fails is answered with isSuccess = FALSE
\* and no status, never as a successful response with status FAILED; the
\* mounted editor that receives it has no timer left and is in ERROR with the
\* answer's message and no job id.
C23_QueryFailureStopsPolling ==
    /\ [](cLastPoll.resp.message = MsgStatusFailed =>
             /\ ~cLastPoll.resp.isSuccess
             /\ cLastPoll.resp.status # "FAILED")
    /\ [][(QueryFailedNow /\ cMounted) =>
             /\ cState'.status = "ERROR"
             /\ cState'.error = MsgStatusFailed
             /\ cState'.jobId = Undefined
             /\ cTimers' = {}]_vars

\* the query of a job being polled failed
C23_Witness ==
    /\ cMounted
    /\ cLastPoll.jobId = "job-1"
    /\ cLastPoll.resp.message = MsgStatusFailed
    /\ cState.status = "ERROR"
    /\ cState.error = MsgStatusFailed
    /\ cPollingRef = "job-1"
    /\ cTimers = {}

\* a status query resolves in this step with a terminal job status
TerminalPollNow ==
    /\ PollResolvedNow
    /\ cLastPoll'.resp.isSuccess
    /\ cLastPoll'.resp.status \in {"COMPLETED", "FAILED"}

\* C25: a COMPLETED or FAILED response for a job is applied only while the
\* client is PROCESSING with that job's id; otherwise the response leaves the
\* client state as it is and stops no timer.
C25_StaleTerminalPollIsNoop ==
    [][(/\ cMounted
        /\ TerminalPollNow
        /\ ~(cState.status = "PROCESSING" /\ cState.jobId = cLastPoll'.jobId))
       => (cState' = cState /\ cTimers' = cTimers)]_vars

\* C27: the job id is set only while the status is PROCESSING.
C27_JobIdOnlyInProcessing ==
    cState.jobId # Undefined => cState.status = "PROCESSING"

\* C28: the processed image is set only while the status is SUCCESS, and a
\* SUCCESS state holds an uploaded file.
C28_ProcessedImageOnlyInSuccess ==
    /\ cState.processedImageUrl # NoUrl => cState.status = "SUCCESS"
    /\ cState.status = "SUCCESS" => cState.uploadedFile # NoFile

\* the previews created and not released
PreviewsAlive == {p \in 1..cCreated : cRevokes[p] = 0}

\* C29: at most one preview is alive at any time, and when a validation
\* success creates a preview every preview created before it has been
\* released.
C29_AtMostOnePreviewAlive ==
    /\ [](Cardinality(PreviewsAlive) <= 1)
    /\ [][cCreated' > cCreated => \A p \in 1..cCreated : cRevokes[p] >= 1]_vars

\* a second preview, created after the first one was released
C29_Witness ==
    /\ cCreated = 2
    /\ cRevokes[1] = 1
    /\ cRevokes[2] = 0
    /\ cState.uploadedFile.preview = 2

\* a status query for the job the client is processing resolves in this step
\* with status COMPLETED
ActiveJobCompletedNow ==
    /\ cMounted
    /\ PollResolvedNow
    /\ cState.status = "PROCESSING"
    /\ cState.jobId = cLastPoll'.jobId
    /\ cLastPoll'.resp.isSuccess
    /\ cLastPoll'.resp.status = "COMPLETED"

\* C30: a COMPLETED response for the active job takes the client from
\* PROCESSING to SUCCESS with the data URL of the result as processed image,
\* no job id, the uploaded file kept and no timer left.
C30_CompletedPollYieldsSuccess ==
    [][ActiveJobCompletedNow =>
          /\ cState'.status = "SUCCESS"
          /\ cState'.processedImageUrl # NoUrl
          /\ cLastPoll'.resp.result # <<>> =>
                cState'.processedImageUrl = DataUrl(cLastPoll'.resp.result[1])
          /\ cState'.jobId = Undefined
          /\ cState'.uploadedFile = cState.uploadedFile
          /\ cTimers' = {}]_vars

\* a status query for the job the client is processing resolves in this step
\* with status FAILED
ActiveJobFailedNow ==
    /\ cMounted
    /\ PollResolvedNow
    /\ cState.status = "PROCESSING"
    /\ cState.jobId = cLastPoll'.jobId
    /\ cLastPoll'.resp.isSuccess
    /\ cLastPoll'.resp.status = "FAILED"

\* C31: a FAILED response for the active job takes the client from PROCESSING
\* to ERROR with the job's error message (the generic one when the response
\* has none), no job id, the uploaded file and the prompt kept and no timer
\* left.
C31_FailedPollYieldsError ==
    [][ActiveJobFailedNow =>
          /\ cState'.status = "ERROR"
          /\ cState'.error = IF cLastPoll'.resp.error \in {"", Undefined}
                               THEN MsgUnknownJobFailure
                               ELSE cLastPoll'.resp.error
          /\ cState'.jobId = Undefined
          /\ cState'.uploadedFile = cState.uploadedFile
          /\ cState'.prompt = cState.prompt
          /\ cTimers' = {}]_vars

\* the only job of the session failed with a message of its own and the
\* client holds that message
C31_Witness ==
    /\ cStarts = 1
    /\ cLastPoll.jobId = "job-1"
    /\ cLastPoll.resp.status = "FAILED"
    /\ cState.status = "ERROR"
    /\ cState.error = "API error"
    /\ cState.uploadedFile # NoFile
    /\ cState.prompt = "make it blue"
    /\ cTimers = {}

\* handleProcessImage passes its guard and dispatches PROCESS_IMAGE_STARTED
ProcessStartedNow == cStarts' = cStarts + 1

\* processImageAction answers with the id of a new job
DispatchSucceededNow == pNextJob' = pNextJob + 1

\* an interval fires and issues a status query for job j
QueryIssuedNow(j) == cQueries'[j] = cQueries[j] + 1

\* C32: the start of processing sets status PROCESSING and clears job id and
\* error, leaving the other fields; the dispatch success stores the new job
\* id and changes nothing else, and if the status is PROCESSING the timer of
\* that job is then the only one; a timer is live, and a status query is
\* issued, only for the job id held by a PROCESSING state.
C32_StartThenDispatchArmsTimer ==
    /\ [][ProcessStartedNow =>
             /\ cState' = [cState EXCEPT !.status = "PROCESSING",
                                         !.error = Undefined,
                                         !.jobId = Undefined]
             /\ cTimers' = {}]_vars
    /\ [][(DispatchSucceededNow /\ cMounted) =>
             /\ cState' = [cState EXCEPT !.jobId = JobIdSeq[pNextJob + 1]]
             /\ cState.status = "PROCESSING" => cTimers' = {cState'.jobId}]_vars
    /\ [](cTimers # {} =>
             /\ cState.status = "PROCESSING"
             /\ cTimers = {cState.jobId})
    /\ [][\A j \in JobIds : QueryIssuedNow(j) =>
             (cState.status = "PROCESSING" /\ cState.jobId = j)]_vars

\* processing, the job id stored, its timer armed and no query issued yet
C32_Witness ==
    /\ cState.status = "PROCESSING"
    /\ cState.jobId = "job-1"
    /\ cState.error = Undefined
    /\ cState.uploadedFile # NoFile
    /\ cTimers = {"job-1"}
    /\ InFlight = 0
    /\ cLastPoll = NoPoll

ValidationMessages == {MsgFileTooLarge, MsgValidationUnexpected}

\* handleFileSelect dispatches VALIDATION_STARTED in this step
SelectFileNow == \E f \in Files : SelectFile(f)

\* handleFileSelect dispatches VALIDATION_FAILURE in this step
ValidationFailsNow ==
    \E i \in 1..MaxUploads, m \in ValidationMessages : ValidationFails(i, m)

\* C33: a file is selected in IDLE and the client becomes VALIDATING with
\* every other field at its initial value; the validation failure then gives
\* IDLE with the validation message as error and no uploaded file, and
\* creates no preview; VALIDATION_STARTED yields that VALIDATING state from
\* whatever state it is applied to.
C33_FailedValidationBackToIdle ==
    /\ [][SelectFileNow =>
             /\ cState.status = "IDLE"
             /\ cState' = [InitialState EXCEPT !.status = "VALIDATING"]]_vars
    /\ [][(ValidationFailsNow /\ cMounted) =>
             /\ cState'.status = "IDLE"
             /\ cState'.error \in ValidationMessages
             /\ cState'.uploadedFile = NoFile
             /\ cCreated' = cCreated
             /\ cRevokes' = cRevokes]_vars
    /\ [](Reducer(cState, [type |-> "VALIDATION_STARTED"])
             = [InitialState EXCEPT !.status = "VALIDATING"])

\* a first upload was refused for its size and no preview exists
C33_Witness ==
    /\ cUploads = 1
    /\ cValidating = <<>>
    /\ cState = [InitialState EXCEPT !.error = MsgFileTooLarge]
    /\ cCreated = 0

\* the failure messages the application itself words: those of the actions,
\* of the editor, of file validation and of the edit call
FixedFailureMessages ==
    {MsgIncomplete, MsgDispatchFailed, MsgNotFound, MsgStatusFailed,
     MsgUnknownJobFailure, MsgEncodeFailed, MsgNoFile, MsgFileTooLarge,
     MsgUnsupportedType, MsgValidationUnexpected, MsgRateLimited,
     MsgGeminiFailed}

\* C35: the error held by the client state, and the message and the error of
\* every status response, is one of the application's fixed messages, never
\* text taken over from the platform's record of a failure.
C35_OnlyFixedFailureMessages ==
    /\ cState.error \in FixedFailureMessages \cup {Undefined}
    /\ ~cLastPoll.resp.isSuccess =>
          cLastPoll.resp.message \in FixedFailureMessages \cup {Undefined}
    /\ cLastPoll.resp.error \in FixedFailureMessages \cup {Undefined}

\* a status query resolves in this step with a job that is not finished
UnfinishedPollNow ==
    /\ PollResolvedNow
    /\ cLastPoll'.resp.isSuccess
    /\ cLastPoll'.resp.status \in {"PENDING", "PROCESSING"}

\* C37: a PENDING or PROCESSING response changes no field of the client state
\* and leaves every timer as it is: an armed timer stays armed.
C37_UnfinishedPollChangesNothing ==
    [][UnfinishedPollNow =>
          /\ cState' = cState
          /\ cTimers' = cTimers
          /\ cPollingRef' = cPollingRef]_vars

\* the active job was reported as PROCESSING and its timer is still armed
C37_Witness ==
    /\ cMounted
    /\ cLastPoll.jobId = "job-1"
    /\ cLastPoll.resp.status = "PROCESSING"
    /\ cState.status = "PROCESSING"
    /\ cState.jobId = "job-1"
    /\ cTimers = {"job-1"}

\* handleProcessImage ends in this step without a job: toBase64 threw, or
\* processImageAction answered with a failure
AttemptFailsNow ==
    \/ \E i \in 1..MaxStarts : EncodingFails(i)
    \/ \E i \in 1..MaxStarts, fails \in BOOLEAN : DispatchFails(i, fails)

\* C38: when the encoding throws or the dispatch fails while the mounted
\* client is PROCESSING without a job id, the client goes to ERROR with one of
\* the attempt's messages and no job id; no job is created, no timer is armed
\* and no status query is issued.
C38_FailedAttemptYieldsError ==
    [][(/\ AttemptFailsNow
        /\ cMounted
        /\ cState.status = "PROCESSING"
        /\ cState.jobId = Undefined)
       => /\ cState'.status = "ERROR"
          /\ cState'.error \in {MsgEncodeFailed, MsgIncomplete, MsgDispatchFailed}
          /\ cState'.jobId = Undefined
          /\ cState'.uploadedFile = cState.uploadedFile
          /\ pNextJob' = pNextJob
          /\ cTimers' = {}
          /\ cQueries' = cQueries]_vars

\* the first attempt of the session failed at dispatch: no job, no timer, no
\* query
C38_Witness ==
    /\ cStarts = 1
    /\ cDispatching = <<>>
    /\ cState.status = "ERROR"
    /\ cState.error = MsgDispatchFailed
    /\ cState.jobId = Undefined
    /\ pNextJob = 0
    /\ cTimers = {}
    /\ InFlight = 0
    /\ cLastPoll = NoPoll

\* C39: the retry button of the ERROR view starts processing again without a
\* reset: the client goes from ERROR straight to PROCESSING with the same
\* uploaded file and prompt and with error and job id cleared, and a dispatch
\* of that file and prompt is begun; a dispatch that succeeds creates a job
\* under an identifier not used before and leaves every other job, the failed
\* one included, as it is.
C39_RetryFromError ==
    /\ [][(ProcessStartedNow /\ cState.status = "ERROR") =>
             /\ cState'.status = "PROCESSING"
             /\ cState'.uploadedFile = cState.uploadedFile
             /\ cState'.uploadedFile # NoFile
             /\ cState'.prompt = cState.prompt
             /\ cState'.error = Undefined
             /\ cState'.jobId = Undefined
             /\ cDispatching' = Append(cDispatching,
                                       [file |-> cState.uploadedFile.file,
                                        prompt |-> cState.prompt])
             /\ pJobs' = pJobs]_vars
    /\ [][DispatchSucceededNow =>
             /\ pJobs[JobIdSeq[pNextJob + 1]] = NoJob
             /\ pJobs' = [pJobs EXCEPT ![JobIdSeq[pNextJob + 1]] = QueuedJob]]_vars

\* the first job failed, the retry was dispatched as a second job and the
\* client is processing it
C39_Witness ==
    /\ cStarts = 2
    /\ pJobs["job-1"].status = "failed"
    /\ pJobs["job-2"].status = "queued"
    /\ cState.status = "PROCESSING"
    /\ cState.jobId = "job-2"
    /\ cState.error = Undefined
    /\ cState.uploadedFile # NoFile
    /\ cTimers = {"job-2"}
    /\ cCreated = 1
    /\ cRevokes[1] = 0

----------------------------------------------------------------------------
(* Claims about the two server actions (SpecActions) *)

\* the call of processImageAction met an exception: inngest.send rejected or
\* resolved with a value whose ids cannot be read
SendThrew == dSend.kind \in {"rejected", "resolved-no-ids"}

\* C40: no call of processImageAction or getProcessingStatusAction ends by
\* throwing; a send or a job lookup that throws is answered with
\* isSuccess = FALSE and the action's fixed message; a dispatch that fails
\* returns no job id.
C40_ActionsNeverThrow ==
    /\ dPc \in {"start", "sending", "done"}
    /\ SendThrew =>
          /\ dPc = "done"
          /\ dResult = Failure(MsgDispatchFailed)
    /\ (dPc = "done" /\ ~dResult.isSuccess) =>
          /\ dResult.jobId = Undefined
          /\ dResult.message \in {MsgIncomplete, MsgDispatchFailed}
    /\ sLookup = "throws" =>
          /\ ~sResp.isSuccess
          /\ sResp.message = MsgStatusFailed
          /\ sResp.status = Undefined
          /\ sResp.result = <<>>
    /\ sLookup # "none" => sResp.message \in {MsgStatusRetrieved, MsgNotFound,
                                               MsgStatusFailed}

\* inngest.send rejected and a job lookup threw: both actions answered with
\* their failure
C40_Witness ==
    /\ dSend.kind = "rejected"
    /\ dPc = "done"
    /\ dResult = Failure(MsgDispatchFailed)
    /\ sLookup = "throws"
    /\ sResp.message = MsgStatusFailed

----------------------------------------------------------------------------
(* Claims about the client's progress (SpecLive) *)

\* C36: when every job reaches completed or failed, the interval keeps firing
\* and every status query resolves, a mounted client that is PROCESSING with
\* a job id eventually is in SUCCESS or in ERROR (or is unmounted).
C36_ProcessingEventuallyEnds ==
    (cMounted /\ cState.status = "PROCESSING" /\ cState.jobId # Undefined)
        ~> (cState.status \in {"SUCCESS", "ERROR"} \/ ~cMounted)

====
